---- MODULE Spec2Model ----
(***************************************************************************)
(* A model of src/service-worker.js: the install / activate lifecycle of   *)
(* the worker, the fetch listener (router), the three caching strategies,  *)
(* the control-message listener and the platform objects they act on (the  *)
(* CacheStorage, the network, the worker's lifetime).                      *)
(*                                                                         *)
(* Strings that the code inspects by substring (url.hostname, url.pathname)*)
(* are sequences of tokens, so that String.prototype.includes is a real    *)
(* substring test.  Every `await` of the code is a step of its own.        *)
(***************************************************************************)
EXTENDS Integers, Sequences, FiniteSets, TLC

(* ------------------------------ bounds -------------------------------- *)
\* number of fetch events dispatched to the worker
MaxFetchEvents == 2
\* number of control messages posted to the worker
MaxMessages == 1
\* number of distinct bodies the network may answer with
MaxBody == 2
MaxSyncs == 1
MaxNotifications == 1
MaxWindows == 1

(* ----------------------------- constants ------------------------------ *)
CACHE_NAME == "mm-marketplace-v1.0.0"

RuntimeCacheIsPrecache == CACHE_NAME

RUNTIME_CACHE == "mm-marketplace-runtime"

\* partitions left behind by earlier versions of the worker (or by the page)
StaleNames == <<"mm-marketplace-v0.9.0", "mm-marketplace-v0.8.0">>

\* the origin the worker is served from; relative URLs resolve against it
Origin == <<"app", ".", "example", ".", "com">>

Url(protocol, hostname, pathname) ==
  [protocol |-> protocol, hostname |-> hostname, pathname |-> pathname]

\* new Request('/x') / new URL('/x', self.location)
Resolve(pathname) == Url("https:", Origin, pathname)

PRECACHE_URLS == << <<"/", "marketplace-pwa.html">>, <<"/", "manifest.json">> >>

OfflinePath == <<"/", "offline.html">>
AppJs == <<"/", "app.js">>
ApiItems == <<"/", "api", "/", "items">>
IndexHtml == <<"/", "index.html">>

(* ----------------------------- responses ------------------------------ *)
\* JavaScript `undefined` (a cache miss, a value not yet assigned)
Undefined == [status |-> 0, body |-> 0]
\* the rejection of fetch() (TypeError: Failed to fetch)
NetworkError == [status |-> -1, body |-> 0]

Statuses == {200, 204, 404}
Responses == [status : Statuses, body : 1..MaxBody]
\* what a fetch() may settle with
Outcomes == Responses \cup {NetworkError}

\* Response.ok: status in 200..299
Ok(response) == response.status >= 200 /\ response.status <= 299

(* ------------------------------ strings ------------------------------- *)
\* String.prototype.includes on token sequences
Includes(s, sub) ==
  \E i \in 0..(Len(s) - Len(sub)) :
    \A j \in 1..Len(sub) : s[i + j] = sub[j]

(* ------------------------------- router ------------------------------- *)
\* line 64: the path denotes an API / REST endpoint
IsApi(url) ==
  \/ Includes(url.pathname, <<"/", "api", "/">>)
  \/ Includes(url.pathname, <<"/", "rest", "/">>)

IsExcludedWithoutCdn(url) ==
  \/ url.protocol = "chrome-extension:"
  \/ url.hostname = <<"maps", ".", "googleapis", ".", "com">>
  \/ Includes(url.hostname, <<"supabase", ".", "co">>)
  \/ Includes(url.hostname, <<"unsplash", ".", "com">>)

\* lines 53-59: chrome extensions and external hosts that are never cached
IsExcluded(url) ==
  \/ url.protocol = "chrome-extension:"
  \/ url.hostname = <<"maps", ".", "googleapis", ".", "com">>
  \/ url.hostname = <<"cdn", ".", "jsdelivr", ".", "net">>
  \/ Includes(url.hostname, <<"supabase", ".", "co">>)
  \/ Includes(url.hostname, <<"unsplash", ".", "com">>)

\* lines 70-75
IsStaticAsset(request) ==
  \/ request.destination = "image"
  \/ request.destination = "style"
  \/ request.destination = "script"
  \/ request.destination = "font"

RouteAnyMethod(request) ==
  IF IsExcluded(request.url) THEN "bypass"
  ELSE IF IsApi(request.url) THEN "networkFirst"
  ELSE IF IsStaticAsset(request) THEN "cacheFirst"
  ELSE "staleWhileRevalidate"

RouteAssetsFirst(request) ==
  IF request.method # "GET" THEN "bypass"
  ELSE IF IsExcluded(request.url) THEN "bypass"
  ELSE IF IsStaticAsset(request) THEN "cacheFirst"
  ELSE IF IsApi(request.url) THEN "networkFirst"
  ELSE "staleWhileRevalidate"

\* lines 45-82: the decision of the fetch listener, in the order of its
\* early returns
Route(request) ==
  IF request.method # "GET" THEN "bypass"
  ELSE IF IsExcluded(request.url) THEN "bypass"
  ELSE IF IsApi(request.url) THEN "networkFirst"
  ELSE IF IsStaticAsset(request) THEN "cacheFirst"
  ELSE "staleWhileRevalidate"

(* ---------------------------- CacheStorage ---------------------------- *)
\* A CacheStorage is the sequence, in creation order, of its partitions
\* [name, entries]; entries is a set of [key, response] with unique keys.

\* caches.keys()
Keys(cs) == [i \in 1..Len(cs) |-> cs[i].name]

\* caches.has(name)
Has(cs, name) == \E i \in 1..Len(cs) : cs[i].name = name

\* caches.open(name): creates the partition when it does not exist
Open(cs, name) ==
  IF Has(cs, name) THEN cs ELSE Append(cs, [name |-> name, entries |-> {}])

\* caches.delete(name)
Delete(cs, name) == SelectSeq(cs, LAMBDA c : c.name # name)

\* the entries of partition `name` ({} when it does not exist)
Entries(cs, name) ==
  IF Has(cs, name)
  THEN (CHOOSE c \in {cs[i] : i \in 1..Len(cs)} : c.name = name).entries
  ELSE {}

\* cache.match(key) on a set of entries
MatchEntries(entries, key) ==
  IF \E e \in entries : e.key = key
  THEN (CHOOSE e \in entries : e.key = key).response
  ELSE Undefined

\* cache.match(key) on the partition `name`
Match(cs, name, key) == MatchEntries(Entries(cs, name), key)

\* caches.match(key): the first partition, in creation order, that holds key
MatchAll(cs, key) ==
  LET hits == {i \in 1..Len(cs) : MatchEntries(cs[i].entries, key) # Undefined}
  IN IF hits = {} THEN Undefined
     ELSE MatchEntries(cs[CHOOSE i \in hits : \A j \in hits : i <= j].entries, key)

\* the partitions caches.match(key) searches: every partition in creation
\* order, up to the first that holds key
Searched(cs, key) ==
  LET hits == {i \in 1..Len(cs) : MatchEntries(cs[i].entries, key) # Undefined}
      last == IF hits = {} THEN Len(cs)
              ELSE CHOOSE i \in hits : \A j \in hits : i <= j
  IN {cs[i].name : i \in 1..last}

\* the entries after cache.put(key, response)
PutEntries(entries, key, response) ==
  {e \in entries : e.key # key} \cup {[key |-> key, response |-> response]}

\* cache.put(key, response) completing on the partition `name`
Put(cs, name, key, response) ==
  [i \in 1..Len(cs) |->
     IF cs[i].name = name
     THEN [cs[i] EXCEPT !.entries = PutEntries(@, key, response)]
     ELSE cs[i]]

\* the batch of cache.addAll committing on the partition `name`
PutAll(cs, name, batch) ==
  [i \in 1..Len(cs) |->
     IF cs[i].name = name
     THEN [cs[i] EXCEPT !.entries =
             {e \in @ : \A b \in batch : b.key # e.key} \cup batch]
     ELSE cs[i]]

\* cache.addAll rejects on a network error and on a response that is not ok
AddAllRejects(outcome) == outcome = NetworkError \/ ~Ok(outcome)

\* whether cache.addAll has every response of its batch
AddAllComplete(urls, got) ==
  \A i \in 1..Len(urls) : \E e \in got : e.key = Resolve(urls[i])

AddAllProgressEager(cs, name, got) == PutAll(cs, name, got)

\* cache.addAll while its fetches are in flight: the responses it has are
\* held back, nothing is stored before the batch is complete
AddAllProgress(cs, name, got) == cs

(* ------------------------------- state -------------------------------- *)
VARIABLES
  caches,       \* the origin's CacheStorage
  worker,       \* ServiceWorker.state of this worker
  active,       \* the registration's active worker: "none", "old", "new"
  skipWaiting,  \* the listeners that have called self.skipWaiting()
  install,      \* the install handler: [pc, got]
  activate,     \* the activate handler: [pc, cacheNames, pending, failed]
  events,       \* the fetch events dispatched: [request, decision]
  calls,        \* the strategy calls started by respondWith
  puts,         \* cache.put operations started and not yet completed
  messages,     \* the message events: [type, payload, pc, got]
  notifications, \* the notifications the worker has shown and nobody closed
  windows,      \* the windows the worker has opened
  synced        \* the runs of syncPosts()

vars == <<caches, worker, active, skipWaiting, install, activate,
          events, calls, puts, messages, notifications, windows, synced>>

\* the partitions that may exist when the worker is installed: any set of
\* stale partitions, and the runtime partition of an earlier version
InitialCaches ==
  { [i \in 1..Len(names) |-> [name |-> names[i], entries |-> {}]] :
      names \in { <<>>, <<StaleNames[1]>>, <<StaleNames[2]>>, StaleNames,
                  <<RUNTIME_CACHE>>, <<StaleNames[1], RUNTIME_CACHE>>,
                  <<StaleNames[1], RUNTIME_CACHE, StaleNames[2]>> } }

Init ==
  /\ caches \in InitialCaches
  /\ worker = "installing"
  /\ active \in {"none", "old"}
  /\ skipWaiting = {}
  /\ install = [pc |-> "open", got |-> {}]
  /\ activate = [pc |-> "idle", cacheNames |-> <<>>, pending |-> {},
                 failed |-> {}]
  /\ events = <<>>
  /\ calls = <<>>
  /\ puts = {}
  /\ messages = <<>>
  /\ notifications = <<>>
  /\ windows = 0
  /\ synced = 0

(* ------------------------------ install ------------------------------- *)
\* what the fetch of an asset of the install list may settle with: the
\* assets are static files of one version
AssetOutcomes ==
  {NetworkError, [status |-> 200, body |-> 1], [status |-> 404, body |-> 1]}

\* line 17: caches.open(CACHE_NAME) resolves
InstallOpen ==
  /\ worker = "installing" /\ install.pc = "open"
  /\ caches' = Open(caches, CACHE_NAME)
  /\ install' = [install EXCEPT !.pc = "addAll"]
  /\ UNCHANGED <<worker, active, skipWaiting, activate, events, calls,
                 puts, messages,
                 notifications, windows, synced>>

InstallFetchedSwallow(inst, key, outcome) ==
  IF AddAllRejects(outcome)
  THEN [inst EXCEPT !.pc = "stored"]
  ELSE [inst EXCEPT !.got = @ \cup {[key |-> key, response |-> outcome]}]

\* lines 16-21: the install handler after one fetch of
\* cache.addAll(PRECACHE_URLS) has settled: a bad outcome rejects addAll,
\* so the promise given to waitUntil; nothing catches the rejection
InstallFetched(inst, key, outcome) ==
  IF AddAllRejects(outcome)
  THEN [inst EXCEPT !.pc = "failed"]
  ELSE [inst EXCEPT !.got = @ \cup {[key |-> key, response |-> outcome]}]

\* line 20: one fetch of cache.addAll(PRECACHE_URLS) settles.  A rejected
\* waitUntil promise fails the installation: the worker becomes redundant.
InstallFetch(i, outcome) ==
  /\ worker = "installing" /\ install.pc = "addAll"
  /\ \A e \in install.got : e.key # Resolve(PRECACHE_URLS[i])
  /\ install' = InstallFetched(install, Resolve(PRECACHE_URLS[i]), outcome)
  /\ caches' = AddAllProgress(caches, CACHE_NAME, install'.got)
  /\ worker' = IF install'.pc = "failed" THEN "redundant" ELSE worker
  /\ UNCHANGED <<active, skipWaiting, activate, events, calls, puts, messages,
                 notifications, windows, synced>>

\* line 20: cache.addAll(PRECACHE_URLS) stores its batch and resolves
InstallStore ==
  /\ worker = "installing" /\ install.pc = "addAll"
  /\ AddAllComplete(PRECACHE_URLS, install.got)
  /\ caches' = PutAll(caches, CACHE_NAME, install.got)
  /\ install' = [install EXCEPT !.pc = "stored"]
  /\ UNCHANGED <<worker, active, skipWaiting, activate, events, calls,
                 puts, messages,
                 notifications, windows, synced>>

\* line 22: .then(() => self.skipWaiting()); the waitUntil promise is
\* fulfilled and the worker is installed
InstallSkipWaiting ==
  /\ worker = "installing" /\ install.pc = "stored"
  /\ skipWaiting' = skipWaiting \cup {"install"}
  /\ install' = [install EXCEPT !.pc = "done"]
  /\ worker' = "installed"
  /\ UNCHANGED <<caches, active, activate, events, calls, puts, messages,
                 notifications, windows, synced>>

(* ------------------------------ activate ------------------------------ *)
\* the platform activates an installed worker once skipWaiting() was called
\* or no other worker is active; the worker it replaces becomes redundant
Activation ==
  /\ worker = "installed"
  /\ skipWaiting # {} \/ active = "none"
  /\ worker' = "activating"
  /\ active' = "new"
  /\ activate' = [activate EXCEPT !.pc = "keys"]
  /\ UNCHANGED <<caches, skipWaiting, install, events, calls, puts, messages,
                 notifications, windows, synced>>

IsStaleKeepsPrecacheOnly(cacheName) == cacheName # CACHE_NAME

\* line 34: the partitions the activate handler deletes
IsStale(cacheName) == cacheName # CACHE_NAME /\ cacheName # RUNTIME_CACHE

\* lines 31-39: caches.keys() resolves and caches.delete is called for
\* every stale name of the list
ActivateKeys ==
  /\ worker = "activating" /\ activate.pc = "keys"
  /\ activate' = [pc |-> "deleting",
                  cacheNames |-> Keys(caches),
                  pending |-> {Keys(caches)[i] : i \in
                                 {j \in 1..Len(caches) : IsStale(Keys(caches)[j])}},
                  failed |-> {}]
  /\ UNCHANGED <<caches, worker, active, skipWaiting, install, events,
                 calls, puts, messages,
                 notifications, windows, synced>>

\* line 36: one caches.delete(cacheName) completes; the deletions are
\* independent, a rejected Promise.all does not stop the others
DeleteSettle(cacheName) ==
  /\ activate.pc \in {"deleting", "rejected"}
  /\ cacheName \in activate.pending
  /\ caches' = Delete(caches, cacheName)
  /\ activate' = [activate EXCEPT !.pending = @ \ {cacheName}]
  /\ UNCHANGED <<worker, active, skipWaiting, install, events, calls,
                 puts, messages,
                 notifications, windows, synced>>

\* line 36: one caches.delete(cacheName) is rejected (a storage error);
\* the partition stays
DeleteReject(cacheName) ==
  /\ activate.pc \in {"deleting", "rejected"}
  /\ cacheName \in activate.pending
  /\ activate' = [activate EXCEPT !.pending = @ \ {cacheName},
                                  !.failed = @ \cup {cacheName}]
  /\ UNCHANGED <<caches, worker, active, skipWaiting, install, events, calls,
                 puts, messages,
                 notifications, windows, synced>>

AllDeletedNotAwaited(act) == TRUE

\* lines 32-40: Promise.all(...) is fulfilled: every promise of the list
\* is (the entries of the list that are undefined count as fulfilled)
AllDeleted(act) == act.pending = {} /\ act.failed = {}

\* lines 32-41: Promise.all is rejected as soon as one caches.delete is;
\* the .then of line 40 is skipped and the promise given to waitUntil is
\* rejected.  The platform activates the worker all the same.
ActivateReject ==
  /\ worker = "activating" /\ activate.pc = "deleting"
  /\ activate.failed # {}
  /\ activate' = [activate EXCEPT !.pc = "rejected"]
  /\ worker' = "activated"
  /\ UNCHANGED <<caches, active, skipWaiting, install, events, calls,
                 puts, messages,
                 notifications, windows, synced>>

\* line 40: Promise.all is fulfilled, then self.clients.claim(); the
\* waitUntil promise is fulfilled and the worker is activated
ActivateClaim ==
  /\ worker = "activating" /\ activate.pc = "deleting"
  /\ AllDeleted(activate)
  /\ activate' = [activate EXCEPT !.pc = "claimed", !.cacheNames = <<>>]
  /\ worker' = "activated"
  /\ UNCHANGED <<caches, active, skipWaiting, install, events, calls,
                 puts, messages,
                 notifications, windows, synced>>

(* ---------------------------- fetch listener --------------------------- *)
Request(method, url, destination) ==
  [method |-> method, url |-> url, destination |-> destination]

\* the requests the pages send
FetchRequests ==
  { Request("POST", Resolve(ApiItems), ""),
    Request("GET", Resolve(ApiItems), ""),
    Request("GET", Resolve(AppJs), "script"),
    Request("GET", Resolve(IndexHtml), "document"),
    Request("GET", Url("https:", <<"maps", ".", "googleapis", ".", "com">>,
                       <<"/", "maps", "/", "api", "/", "js">>), "script"),
    Request("GET", Url("chrome-extension:", <<"abcdef">>, AppJs), "script") }

\* the calls whose respondWith promise has settled: the requests the pages
\* have been answered
Answered == {i \in 1..Len(calls) : calls[i].settled}

\* a strategy call as respondWith starts it: the strategy has called
\* caches.open(RUNTIME_CACHE) and awaits it.  `after` are the calls that
\* had been answered when the event was dispatched, `reads` the partitions
\* the call's lookups have searched.
NewCall(event, request, strategy) ==
  [event |-> event, request |-> request, strategy |-> strategy, pc |-> "open",
   cachedResponse |-> Undefined, networkResponse |-> Undefined,
   fetched |-> FALSE, put |-> Undefined, settled |-> FALSE,
   result |-> Undefined, after |-> Answered, reads |-> {}]

\* lines 45-82: a fetch event is dispatched to the activated worker
FetchEvent(request) ==
  /\ worker = "activated"
  /\ Len(events) < MaxFetchEvents
  /\ events' = Append(events, [request |-> request, decision |-> Route(request)])
  /\ calls' = IF Route(request) = "bypass" THEN calls
              ELSE Append(calls, NewCall(Len(events) + 1, request, Route(request)))
  /\ UNCHANGED <<caches, worker, active, skipWaiting, install, activate,
                 puts, messages,
                 notifications, windows, synced>>

(* ----------------------------- strategies ----------------------------- *)
ShouldCacheAnyOk(networkResponse) == Ok(networkResponse)

\* lines 95, 112, 131: networkResponse && networkResponse.status === 200
ShouldCache(networkResponse) == networkResponse.status = 200

\* lines 86-87, 108-111, 127-128: after caches.open(RUNTIME_CACHE),
\* cacheFirst and staleWhileRevalidate call cache.match, networkFirst fetch
Opened(c) ==
  IF c.strategy = "networkFirst"
  THEN [c EXCEPT !.pc = "fetch", !.fetched = TRUE]
  ELSE [c EXCEPT !.pc = "match"]

\* lines 86, 108, 127: caches.open(RUNTIME_CACHE) resolves
CallOpen(i) ==
  /\ calls[i].pc = "open"
  /\ caches' = Open(caches, RUNTIME_CACHE)
  /\ calls' = [calls EXCEPT ![i] = Opened(@)]
  /\ UNCHANGED <<worker, active, skipWaiting, install, activate, events,
                 puts, messages,
                 notifications, windows, synced>>

CacheFirstMatchedAlwaysFetch(c) == [c EXCEPT !.pc = "fetch", !.fetched = TRUE]

\* lines 89-94: cacheFirst with cachedResponse assigned: a hit is returned,
\* a miss starts the fetch
CacheFirstMatched(c) ==
  IF c.cachedResponse # Undefined
  THEN [c EXCEPT !.pc = "done", !.settled = TRUE, !.result = c.cachedResponse]
  ELSE [c EXCEPT !.pc = "fetch", !.fetched = TRUE]

StaleMatchedPrefersNetwork(c) == [c EXCEPT !.pc = "fetch", !.fetched = TRUE]

\* lines 130-137: staleWhileRevalidate with cachedResponse assigned: the
\* fetch is started in every case, and a hit is returned without awaiting it
StaleMatched(c) ==
  IF c.cachedResponse # Undefined
  THEN [c EXCEPT !.pc = "fetch", !.fetched = TRUE, !.settled = TRUE,
                 !.result = c.cachedResponse]
  ELSE [c EXCEPT !.pc = "fetch", !.fetched = TRUE]

\* lines 87, 128: cache.match(request) on the runtime partition resolves
CallMatch(i) ==
  /\ calls[i].pc = "match"
  /\ LET c == [calls[i] EXCEPT !.cachedResponse =
                 Match(caches, RUNTIME_CACHE, calls[i].request.url),
                                !.reads = @ \cup {RUNTIME_CACHE}]
     IN calls' = [calls EXCEPT ![i] =
                    IF c.strategy = "cacheFirst" THEN CacheFirstMatched(c)
                    ELSE StaleMatched(c)]
  /\ UNCHANGED <<caches, worker, active, skipWaiting, install, activate,
                 events, puts, messages,
                 notifications, windows, synced>>

\* lines 95-103: cacheFirst with the outcome of fetch in networkResponse
CacheFirstFetched(c) ==
  IF c.networkResponse = NetworkError
  THEN [c EXCEPT !.pc = "offline"]
  ELSE [c EXCEPT !.pc = "done",
                 !.put = IF ShouldCache(c.networkResponse)
                         THEN c.networkResponse ELSE Undefined,
                 !.settled = TRUE, !.result = c.networkResponse]

NetworkFirstFetchedNoPut(c) ==
  IF c.networkResponse = NetworkError
  THEN [c EXCEPT !.pc = "fallback"]
  ELSE [c EXCEPT !.pc = "done", !.settled = TRUE, !.result = c.networkResponse]

\* lines 112-117: networkFirst with the outcome of fetch in networkResponse
NetworkFirstFetched(c) ==
  IF c.networkResponse = NetworkError
  THEN [c EXCEPT !.pc = "fallback"]
  ELSE [c EXCEPT !.pc = "done",
                 !.put = IF ShouldCache(c.networkResponse)
                         THEN c.networkResponse ELSE Undefined,
                 !.settled = TRUE, !.result = c.networkResponse]

StaleFetchedNoPut(c) ==
  [c EXCEPT !.pc = "done", !.settled = TRUE,
            !.result = IF c.settled THEN @ ELSE c.networkResponse]

StaleFetchedSurfacesFailure(c) ==
  IF c.networkResponse = NetworkError
  THEN [c EXCEPT !.pc = "done", !.settled = TRUE, !.result = NetworkError]
  ELSE [c EXCEPT !.pc = "done",
                 !.put = IF c.networkResponse.status = 200
                         THEN c.networkResponse ELSE Undefined,
                 !.settled = TRUE,
                 !.result = IF c.settled THEN @ ELSE c.networkResponse]

\* lines 130-137: staleWhileRevalidate when fetch settles: the promise the
\* call returned on a miss settles as fetchPromise does; on a hit the call
\* has returned and the outcome reaches nobody
StaleFetched(c) ==
  IF c.networkResponse = NetworkError
  THEN [c EXCEPT !.pc = "done", !.settled = TRUE,
                 !.result = IF c.settled THEN @ ELSE NetworkError]
  ELSE [c EXCEPT !.pc = "done",
                 !.put = IF ShouldCache(c.networkResponse)
                         THEN c.networkResponse ELSE Undefined,
                 !.settled = TRUE,
                 !.result = IF c.settled THEN @ ELSE c.networkResponse]

\* lines 94, 111, 130: fetch(request) settles; a 200 response starts a
\* cache.put that nothing awaits
CallFetch(i, outcome) ==
  /\ calls[i].pc = "fetch"
  /\ LET c == [calls[i] EXCEPT !.networkResponse = outcome]
     IN calls' = [calls EXCEPT ![i] =
                    CASE c.strategy = "cacheFirst" -> CacheFirstFetched(c)
                      [] c.strategy = "networkFirst" -> NetworkFirstFetched(c)
                      [] OTHER -> StaleFetched(c)]
  /\ puts' = IF calls'[i].put # Undefined
             THEN puts \cup {[key |-> calls[i].request.url,
                              response |-> calls'[i].put]}
             ELSE puts
  /\ UNCHANGED <<caches, worker, active, skipWaiting, install, activate,
                 events, messages,
                 notifications, windows, synced>>

\* line 102: return caches.match('/offline.html')
CacheFirstOffline(c, offline) ==
  [c EXCEPT !.pc = "done", !.settled = TRUE, !.result = offline]

\* line 102: caches.match('/offline.html') resolves
CallOffline(i) ==
  /\ calls[i].pc = "offline"
  /\ LET c == [calls[i] EXCEPT !.reads =
                 @ \cup Searched(caches, Resolve(OfflinePath))]
     IN calls' = [calls EXCEPT ![i] =
                    CacheFirstOffline(c, MatchAll(caches, Resolve(OfflinePath)))]
  /\ UNCHANGED <<caches, worker, active, skipWaiting, install, activate,
                 events, puts, messages,
                 notifications, windows, synced>>

NetworkFirstFallbackReturnsMatch(c) ==
  [c EXCEPT !.pc = "done", !.settled = TRUE, !.result = c.cachedResponse]

NetworkFirstFallbackRethrows(c) ==
  [c EXCEPT !.pc = "done", !.settled = TRUE, !.result = NetworkError]

\* lines 118-121: networkFirst returns the cached response or rethrows
NetworkFirstFallback(c) ==
  [c EXCEPT !.pc = "done", !.settled = TRUE,
            !.result = IF c.cachedResponse # Undefined THEN c.cachedResponse
                       ELSE NetworkError]

\* line 117: cache.match(request) on the runtime partition resolves
CallFallback(i) ==
  /\ calls[i].pc = "fallback"
  /\ LET c == [calls[i] EXCEPT !.cachedResponse =
                 Match(caches, RUNTIME_CACHE, calls[i].request.url),
                                !.reads = @ \cup {RUNTIME_CACHE}]
     IN calls' = [calls EXCEPT ![i] = NetworkFirstFallback(c)]
  /\ UNCHANGED <<caches, worker, active, skipWaiting, install, activate,
                 events, puts, messages,
                 notifications, windows, synced>>

\* lines 96, 113, 132: a cache.put on the runtime partition completes
PutCommit(p) ==
  /\ p \in puts
  /\ caches' = Put(caches, RUNTIME_CACHE, p.key, p.response)
  /\ puts' = puts \ {p}
  /\ UNCHANGED <<worker, active, skipWaiting, install, activate, events,
                 calls, messages,
                 notifications, windows, synced>>

(* --------------------------- message listener ------------------------- *)
\* the event.data the pages post
MessageData ==
  { [type |-> "SKIP_WAITING", payload |-> <<>>],
    [type |-> "CACHE_URLS", payload |-> <<OfflinePath>>],
    [type |-> "CACHE_URLS", payload |-> <<AppJs>>],
    [type |-> "PING", payload |-> <<>>] }

\* lines 200-212: a message event is dispatched; the listener runs to its
\* end, having called self.skipWaiting() or caches.open(RUNTIME_CACHE)
MessageEvent(data) ==
  /\ worker # "redundant"
  /\ Len(messages) < MaxMessages
  /\ skipWaiting' = IF data.type = "SKIP_WAITING"
                    THEN skipWaiting \cup {"message"} ELSE skipWaiting
  /\ messages' = Append(messages,
       [type |-> data.type, payload |-> data.payload, got |-> {},
        pc |-> IF data.type = "CACHE_URLS" THEN "open" ELSE "done"])
  /\ UNCHANGED <<caches, worker, active, install, activate, events, calls, puts,
                 notifications, windows, synced>>

\* line 208: caches.open(RUNTIME_CACHE) resolves; line 209: cache.addAll
\* starts the fetches of the payload
MessageOpen(i) ==
  /\ messages[i].pc = "open"
  /\ caches' = Open(caches, RUNTIME_CACHE)
  /\ messages' = [messages EXCEPT ![i].pc = "addAll"]
  /\ UNCHANGED <<worker, active, skipWaiting, install, activate, events,
                 calls, puts,
                 notifications, windows, synced>>

\* line 209: the message's addAll after one of its fetches has settled;
\* nothing handles its rejection
MessageFetched(m, key, outcome) ==
  IF AddAllRejects(outcome)
  THEN [m EXCEPT !.pc = "rejected"]
  ELSE [m EXCEPT !.got = @ \cup {[key |-> key, response |-> outcome]}]

\* line 209: one fetch of cache.addAll(event.data.payload) settles
MessageFetch(i, j, outcome) ==
  /\ messages[i].pc = "addAll"
  /\ \A e \in messages[i].got : e.key # Resolve(messages[i].payload[j])
  /\ messages' = [messages EXCEPT ![i] =
                    MessageFetched(@, Resolve(@.payload[j]), outcome)]
  /\ caches' = AddAllProgress(caches, RUNTIME_CACHE, messages'[i].got)
  /\ UNCHANGED <<worker, active, skipWaiting, install, activate, events,
                 calls, puts,
                 notifications, windows, synced>>

\* line 209: cache.addAll(event.data.payload) stores its batch
MessageStore(i) ==
  /\ messages[i].pc = "addAll"
  /\ AddAllComplete(messages[i].payload, messages[i].got)
  /\ caches' = PutAll(caches, RUNTIME_CACHE, messages[i].got)
  /\ messages' = [messages EXCEPT ![i].pc = "done"]
  /\ UNCHANGED <<worker, active, skipWaiting, install, activate, events,
                 calls, puts,
                 notifications, windows, synced>>

(* ------------------- sync, push and notificationclick ------------------ *)
SyncTags == {"sync-posts", "sync-photos"}

\* lines 140-152: a sync event is dispatched; syncPosts() runs for the tag
\* 'sync-posts' and touches nothing but the console
SyncEvent(tag) ==
  /\ worker = "activated"
  /\ synced < MaxSyncs
  /\ synced' = IF tag = "sync-posts" THEN synced + 1 ELSE synced
  /\ UNCHANGED <<caches, worker, active, skipWaiting, install, activate,
                 events, calls, puts, messages, notifications, windows>>

\* event.data of a push event: absent, or a text
PushData == {"", "text"}

\* lines 157-158: body: event.data ? event.data.text() : 'New update available!'
PushBody(data) == IF data # "" THEN data ELSE "New update available!"

\* lines 154-184: a push event is dispatched; the notification is shown
PushEvent(data) ==
  /\ worker = "activated"
  /\ Len(notifications) < MaxNotifications
  /\ notifications' = Append(notifications,
                             [title |-> "Myanmar Marketplace",
                              body |-> PushBody(data)])
  /\ UNCHANGED <<caches, worker, active, skipWaiting, install, activate,
                 events, calls, puts, messages, windows, synced>>

NotificationActions == {"explore", "close", ""}

\* lines 187-197: a notification is clicked: it is closed, and the action
\* 'explore' opens a window
NotificationClick(k, action) ==
  /\ worker = "activated"
  /\ k \in 1..Len(notifications)
  /\ action = "explore" => windows < MaxWindows
  /\ notifications' = [j \in 1..(Len(notifications) - 1) |->
                         IF j < k THEN notifications[j] ELSE notifications[j + 1]]
  /\ windows' = IF action = "explore" THEN windows + 1 ELSE windows
  /\ UNCHANGED <<caches, worker, active, skipWaiting, install, activate,
                 events, calls, puts, messages, synced>>

(* --------------------------- worker lifetime --------------------------- *)
\* an event whose waitUntil / respondWith promise has not settled keeps the
\* worker alive
LifetimePending ==
  \/ worker \in {"installing", "activating"}
  \/ \E i \in 1..Len(calls) : ~calls[i].settled

\* work that no waitUntil / respondWith promise covers
Floating ==
  \/ puts # {}
  \/ \E i \in 1..Len(calls) : calls[i].settled /\ calls[i].pc = "fetch"
  \/ \E i \in 1..Len(messages) : messages[i].pc \in {"open", "addAll"}

\* the platform stops the idle worker: what it was still doing is lost
Terminate ==
  /\ ~LifetimePending
  /\ Floating
  /\ puts' = {}
  /\ calls' = [i \in 1..Len(calls) |->
                 IF calls[i].pc = "fetch" THEN [calls[i] EXCEPT !.pc = "killed"]
                 ELSE calls[i]]
  /\ messages' = [i \in 1..Len(messages) |->
                    IF messages[i].pc \in {"open", "addAll"}
                    THEN [messages[i] EXCEPT !.pc = "killed"]
                    ELSE messages[i]]
  /\ UNCHANGED <<caches, worker, active, skipWaiting, install, activate, events,
                 notifications, windows, synced>>

(* ---------------------------- specification ---------------------------- *)
Next ==
  \/ InstallOpen
  \/ \E i \in 1..Len(PRECACHE_URLS), outcome \in AssetOutcomes :
       InstallFetch(i, outcome)
  \/ InstallStore
  \/ InstallSkipWaiting
  \/ Activation
  \/ ActivateKeys
  \/ \E cacheName \in activate.pending : DeleteSettle(cacheName)
  \/ ActivateClaim
  \/ \E request \in FetchRequests : FetchEvent(request)
  \/ \E i \in 1..Len(calls) : CallOpen(i)
  \/ \E i \in 1..Len(calls) : CallMatch(i)
  \/ \E i \in 1..Len(calls), outcome \in Outcomes : CallFetch(i, outcome)
  \/ \E i \in 1..Len(calls) : CallOffline(i)
  \/ \E i \in 1..Len(calls) : CallFallback(i)
  \/ \E p \in puts : PutCommit(p)
  \/ \E data \in MessageData : MessageEvent(data)
  \/ \E i \in 1..Len(messages) : MessageOpen(i)
  \/ \E i \in 1..Len(messages), outcome \in Outcomes :
       \E j \in 1..Len(messages[i].payload) : MessageFetch(i, j, outcome)
  \/ \E i \in 1..Len(messages) : MessageStore(i)
  \/ Terminate

Spec == Init /\ [][Next]_vars

(* ------------------- one fetch event, any request ---------------------- *)
Methods == {"GET", "POST", "HEAD"}
Protocols == {"https:", "chrome-extension:"}
Hostnames ==
  { Origin,
    <<"maps", ".", "googleapis", ".", "com">>,
    <<"cdn", ".", "jsdelivr", ".", "net">>,
    <<"abc", ".", "supabase", ".", "co">>,
    <<"images", ".", "unsplash", ".", "com">>,
    <<"static", ".", "example", ".", "org">> }
Pathnames ==
  { ApiItems, AppJs, IndexHtml, OfflinePath,
    <<"/", "rest", "/", "v1">>,
    <<"/", "v2", "/", "api", "/", "items">>,
    <<"/", "apis", "/", "items">> }
Destinations == {"", "document", "image", "style", "script", "font"}

RouterRequests ==
  { Request(m, Url(p, h, q), d) :
      m \in Methods, p \in Protocols, h \in Hostnames, q \in Pathnames,
      d \in Destinations }

\* the precache partition as a successful install leaves it
Precached ==
  { [key |-> Resolve(PRECACHE_URLS[i]), response |-> [status |-> 200, body |-> 1]] :
      i \in 1..Len(PRECACHE_URLS) }

\* the worker installed on a clean origin and activated
RouterInit ==
  /\ caches = <<[name |-> CACHE_NAME, entries |-> Precached]>>
  /\ worker = "activated"
  /\ active = "new"
  /\ skipWaiting = {"install"}
  /\ install = [pc |-> "done", got |-> Precached]
  /\ activate = [pc |-> "claimed", cacheNames |-> <<>>, pending |-> {},
                 failed |-> {}]
  /\ events = <<>>
  /\ calls = <<>>
  /\ puts = {}
  /\ messages = <<>>
  /\ notifications = <<>>
  /\ windows = 0
  /\ synced = 0

RouterNext ==
  \/ Len(events) = 0 /\ \E request \in RouterRequests : FetchEvent(request)
  \/ \E i \in 1..Len(calls) : CallOpen(i)
  \/ \E i \in 1..Len(calls) : CallMatch(i)
  \/ \E i \in 1..Len(calls), outcome \in Outcomes : CallFetch(i, outcome)
  \/ \E i \in 1..Len(calls) : CallOffline(i)
  \/ \E i \in 1..Len(calls) : CallFallback(i)
  \/ \E p \in puts : PutCommit(p)
  \/ Terminate

RouterSpec == RouterInit /\ [][RouterNext]_vars

(* ------------- install and activate, with storage failures ------------ *)
LifecycleNext ==
  \/ InstallOpen
  \/ \E i \in 1..Len(PRECACHE_URLS), outcome \in AssetOutcomes :
       InstallFetch(i, outcome)
  \/ InstallStore
  \/ InstallSkipWaiting
  \/ Activation
  \/ ActivateKeys
  \/ \E cacheName \in activate.pending : DeleteSettle(cacheName)
  \/ \E cacheName \in activate.pending : DeleteReject(cacheName)
  \/ ActivateReject
  \/ ActivateClaim
  \/ \E data \in MessageData : MessageEvent(data)
  \/ \E i \in 1..Len(messages) : MessageOpen(i)
  \/ \E i \in 1..Len(messages), outcome \in Outcomes :
       \E j \in 1..Len(messages[i].payload) : MessageFetch(i, j, outcome)
  \/ \E i \in 1..Len(messages) : MessageStore(i)

LifecycleSpec == Init /\ [][LifecycleNext]_vars

(* ------------- the activated worker, kept alive by the platform -------- *)
AliveNext ==
  \/ \E request \in FetchRequests : FetchEvent(request)
  \/ \E i \in 1..Len(calls) : CallOpen(i)
  \/ \E i \in 1..Len(calls) : CallMatch(i)
  \/ \E i \in 1..Len(calls), outcome \in Outcomes : CallFetch(i, outcome)
  \/ \E i \in 1..Len(calls) : CallOffline(i)
  \/ \E i \in 1..Len(calls) : CallFallback(i)
  \/ \E p \in puts : PutCommit(p)

\* a cache.put that was started completes while the worker runs; so do
\* the lookups and the fetches the calls await
AliveFairness ==
  /\ WF_vars(\E p \in puts : PutCommit(p))
  /\ WF_vars(\E i \in 1..Len(calls) : CallOpen(i) \/ CallMatch(i))

AliveSpec == RouterInit /\ [][AliveNext]_vars /\ AliveFairness

(* ------------- the activated worker and every event it handles -------- *)
EventsNext ==
  \/ Len(events) = 0 /\ \E request \in FetchRequests : FetchEvent(request)
  \/ \E i \in 1..Len(calls) : CallOpen(i)
  \/ \E i \in 1..Len(calls) : CallMatch(i)
  \/ \E i \in 1..Len(calls), outcome \in Outcomes : CallFetch(i, outcome)
  \/ \E i \in 1..Len(calls) : CallOffline(i)
  \/ \E i \in 1..Len(calls) : CallFallback(i)
  \/ \E p \in puts : PutCommit(p)
  \/ \E data \in MessageData : MessageEvent(data)
  \/ \E i \in 1..Len(messages) : MessageOpen(i)
  \/ \E i \in 1..Len(messages), outcome \in Outcomes :
       \E j \in 1..Len(messages[i].payload) : MessageFetch(i, j, outcome)
  \/ \E i \in 1..Len(messages) : MessageStore(i)
  \/ \E tag \in SyncTags : SyncEvent(tag)
  \/ \E data \in PushData : PushEvent(data)
  \/ \E k \in 1..Len(notifications), action \in NotificationActions :
       NotificationClick(k, action)
  \/ Terminate

EventsSpec == RouterInit /\ [][EventsNext]_vars

(* ------------------------------ properties ----------------------------- *)
CallsOf(strategy) == {i \in 1..Len(calls) : calls[i].strategy = strategy}

\* the calls respondWith started for the i-th fetch event
StartedFor(i) == {j \in 1..Len(calls) : calls[j].event = i}

\* C1: a cacheFirst call whose lookup found an entry of the runtime
\* partition has returned that entry and has started no fetch
C1_CacheFirstHit ==
  \A i \in CallsOf("cacheFirst") :
    calls[i].cachedResponse # Undefined =>
      /\ calls[i].settled
      /\ calls[i].result = calls[i].cachedResponse
      /\ ~calls[i].fetched
      /\ calls[i].networkResponse = Undefined

C1_Witness ==
  \E i \in CallsOf("cacheFirst") :
    calls[i].cachedResponse # Undefined /\ calls[i].pc = "done"

C3_StaleHit ==
  \A i \in CallsOf("staleWhileRevalidate") :
    calls[i].cachedResponse # Undefined =>
      /\ calls[i].settled
      /\ calls[i].result = calls[i].cachedResponse

C3_Witness ==
  \E i \in CallsOf("staleWhileRevalidate") :
    /\ calls[i].cachedResponse # Undefined
    /\ calls[i].pc = "done"
    /\ calls[i].networkResponse \in Responses
    /\ calls[i].networkResponse.status = 200
    /\ calls[i].networkResponse # calls[i].cachedResponse

\* the names of the list taken by caches.keys()
Listed == {activate.cacheNames[i] : i \in 1..Len(activate.cacheNames)}

C5_InstallAtomic ==
  install.pc = "failed" => Entries(caches, CACHE_NAME) = {}

\* one asset was fetched, the other failed
C5_Witness ==
  /\ install.pc = "failed"
  /\ install.got # {}
  /\ Has(caches, CACHE_NAME)

\* C6: after a failed precache fetch the install handler has not called
\* skipWaiting, the worker is redundant and was never activated, and the
\* worker that was active still is; the install handler calls skipWaiting
\* only when every asset of the install list is stored
C6_InstallFailClosed ==
  /\ install.pc = "failed" =>
       /\ "install" \notin skipWaiting
       /\ worker = "redundant"
       /\ activate.pc = "idle"
       /\ active # "new"
       /\ events = <<>>
  /\ "install" \in skipWaiting =>
       \A i \in 1..Len(PRECACHE_URLS) :
         Match(caches, CACHE_NAME, Resolve(PRECACHE_URLS[i])) # Undefined

\* the install failed although a SKIP_WAITING message reached the worker
C6_Witness ==
  /\ install.pc = "failed"
  /\ "message" \in skipWaiting
  /\ active = "old"

\* the strategies the claim's precedence gives a request
C7_Expected(request) ==
  CASE request.method # "GET" \/ IsExcluded(request.url) -> "bypass"
    [] request.method = "GET" /\ ~IsExcluded(request.url) /\ IsApi(request.url)
         -> "networkFirst"
    [] request.method = "GET" /\ ~IsExcluded(request.url) /\ ~IsApi(request.url)
         /\ request.destination \in {"image", "style", "script", "font"}
         -> "cacheFirst"
    [] OTHER -> "staleWhileRevalidate"

\* C7: every fetch event gets the decision of the precedence bypass,
\* network-first, cache-first, stale-while-revalidate; a bypassed event
\* starts no strategy and every other event exactly one, the one decided
C7_RouterDecision ==
  \A i \in 1..Len(events) :
    /\ events[i].decision = C7_Expected(events[i].request)
    /\ Cardinality(StartedFor(i)) = IF events[i].decision = "bypass" THEN 0 ELSE 1
    /\ \A j \in StartedFor(i) : calls[j].strategy = events[i].decision

\* a script under an API path is served network-first
C7_Witness ==
  \E i \in 1..Len(events) :
    /\ events[i].request.destination = "script"
    /\ Includes(events[i].request.url.pathname, <<"/", "api", "/">>)
    /\ events[i].decision = "networkFirst"
    /\ \E j \in StartedFor(i) : calls[j].settled

\* the scheme and the hosts that are not intercepted
C8_Excluded(url) ==
  \/ url.protocol = "chrome-extension:"
  \/ url.hostname \in { <<"maps", ".", "googleapis", ".", "com">>,
                        <<"cdn", ".", "jsdelivr", ".", "net">> }
  \/ Includes(url.hostname, <<"supabase", ".", "co">>)
  \/ Includes(url.hostname, <<"unsplash", ".", "com">>)

\* C8: a GET fetch event to an excluded host or scheme is not answered by
\* the worker, starts no strategy, and leaves the partitions as they were
C8_ExcludedBypass ==
  \A i \in 1..Len(events) :
    (events[i].request.method = "GET" /\ C8_Excluded(events[i].request.url)) =>
      /\ events[i].decision = "bypass"
      /\ StartedFor(i) = {}
      /\ caches = <<[name |-> CACHE_NAME, entries |-> Precached]>>
      /\ puts = {}

C8_Witness ==
  \E i \in 1..Len(events) :
    /\ events[i].request.method = "GET"
    /\ events[i].request.url.protocol = "https:"
    /\ events[i].request.url.hostname = <<"cdn", ".", "jsdelivr", ".", "net">>
    /\ IsApi(events[i].request.url)
    /\ events[i].decision = "bypass"

\* C9: a fetch event that is not a GET is not answered by the worker,
\* starts no strategy and leaves the partitions as they were; every
\* strategy call, so every cache.put, is for a GET request
C9_NonGetBypass ==
  /\ \A i \in 1..Len(events) :
       events[i].request.method # "GET" =>
         /\ events[i].decision = "bypass"
         /\ StartedFor(i) = {}
         /\ caches = <<[name |-> CACHE_NAME, entries |-> Precached]>>
         /\ puts = {}
  /\ \A j \in 1..Len(calls) : calls[j].request.method = "GET"

C9_Witness ==
  \E i \in 1..Len(events) :
    /\ events[i].request.method = "POST"
    /\ events[i].request.url = Resolve(ApiItems)
    /\ events[i].request.destination = "script"
    /\ events[i].decision = "bypass"

\* C10 as stated: every response stored in a partition has status 200
C10_OnlyStatus200Stored ==
  \A i \in 1..Len(caches) :
    \A e \in caches[i].entries : e.response.status = 200

\* C11: when a cacheFirst call for K missed the cache and returned the
\* network's 200 response, every cacheFirst call for K whose request was
\* made after that answer, and that the network does not answer, has
\* returned that response from the cache
C11_PopulateThenServe ==
  \A i \in CallsOf("cacheFirst") : \A j \in CallsOf("cacheFirst") :
    ( /\ i \in calls[j].after
      /\ calls[j].request.url = calls[i].request.url
      /\ calls[i].cachedResponse = Undefined
      /\ calls[i].networkResponse.status = 200
      /\ calls[j].pc = "done"
      /\ calls[j].networkResponse \in {Undefined, NetworkError} )
    => calls[j].result = calls[i].networkResponse

\* C12: a networkFirst call whose fetch failed has returned the entry of
\* the runtime partition for its request when there is one, and has ended
\* with the fetch's failure when there is none; no networkFirst call has
\* returned an undefined response
C12_NetworkFirstFailure ==
  \A i \in CallsOf("networkFirst") :
    /\ calls[i].settled => calls[i].result # Undefined
    /\ (calls[i].networkResponse = NetworkError /\ calls[i].pc = "done") =>
         /\ calls[i].put = Undefined
         /\ calls[i].cachedResponse # Undefined =>
              calls[i].result = calls[i].cachedResponse
         /\ calls[i].cachedResponse = Undefined =>
              calls[i].result = NetworkError

C12_Witness ==
  \E i \in CallsOf("networkFirst") :
    /\ calls[i].networkResponse = NetworkError
    /\ calls[i].pc = "done"
    /\ calls[i].cachedResponse # Undefined
    /\ calls[i].result = calls[i].cachedResponse

\* C13: a cacheFirst call whose fetch failed has not returned an undefined
\* response: it has returned the offline page or has ended with the failure
C13_CacheFirstFailure ==
  \A i \in CallsOf("cacheFirst") :
    (calls[i].networkResponse = NetworkError /\ calls[i].pc = "done") =>
      /\ calls[i].result # Undefined
      /\ calls[i].result \in Responses \/ calls[i].result = NetworkError

C15_CallsHit ==
  {i \in CallsOf("staleWhileRevalidate") : calls[i].cachedResponse # Undefined}

C15_Served ==
  \A i \in C15_CallsHit :
    /\ calls[i].settled /\ calls[i].result = calls[i].cachedResponse
    /\ calls[i].networkResponse = NetworkError =>
         calls[i].pc = "done" /\ calls[i].put = Undefined

C15_FailureStep ==
  \A i \in C15_CallsHit :
    (calls[i].pc = "fetch" /\ calls'[i].networkResponse = NetworkError) =>
      /\ caches' = caches /\ puts' = puts
      /\ calls'[i].result = calls[i].result

C15_StaleServesOnFailure == []C15_Served /\ [][C15_FailureStep]_vars

C15_Witness ==
  \E i \in C15_CallsHit :
    /\ calls[i].networkResponse = NetworkError
    /\ calls[i].pc = "done"
    /\ calls[i].result = calls[i].cachedResponse
    /\ Match(caches, RUNTIME_CACHE, calls[i].request.url) = calls[i].cachedResponse

\* the calls the network answered with a status other than 200
C16_BadStatus ==
  {i \in 1..Len(calls) :
     calls[i].networkResponse \in Responses /\ calls[i].networkResponse.status # 200}

\* C16 as stated: a call of any of the three strategies that the network
\* answered with a status other than 200 has started no cache.put and has
\* returned that network response
C16_BadStatusReturnedAsIs ==
  \A i \in C16_BadStatus :
    /\ calls[i].put = Undefined
    /\ calls[i].settled /\ calls[i].result = calls[i].networkResponse

\* C16: a call that the network answered with a status other than 200 has
\* started no cache.put, and the step in which the answer arrives changes
\* neither the partitions nor the writes under way; it has returned that
\* network response, except a staleWhileRevalidate call that found an
\* entry, which has returned the entry
C16_Returned ==
  \A i \in C16_BadStatus :
    /\ calls[i].put = Undefined
    /\ calls[i].settled
    /\ calls[i].result =
         IF calls[i].strategy = "staleWhileRevalidate"
              /\ calls[i].cachedResponse # Undefined
         THEN calls[i].cachedResponse
         ELSE calls[i].networkResponse

C16_AnswerStep ==
  \A i \in 1..Len(calls) :
    (calls[i].pc = "fetch" /\ calls'[i].networkResponse \in Responses
       /\ calls'[i].networkResponse.status # 200) =>
      caches' = caches /\ puts' = puts

C16_BadStatusNotCached == []C16_Returned /\ [][C16_AnswerStep]_vars

C16_Witness ==
  \E i \in C16_BadStatus : \E j \in calls[i].after :
    /\ calls[i].strategy = "networkFirst"
    /\ calls[j].request.url = calls[i].request.url
    /\ calls[j].put # Undefined
    /\ Match(caches, RUNTIME_CACHE, calls[i].request.url) = calls[j].put
    /\ calls[i].result = calls[i].networkResponse
    /\ calls[i].result.status = 404

\* C17: whenever no waitUntil / respondWith promise is pending, so that the
\* platform may stop the worker, no cache write started by a handler is
\* still under way: no cache.put, no fetch of a background refresh and no
\* addAll of a CACHE_URLS message
C17_KeepAlive == ~LifetimePending => ~Floating

\* C18: a staleWhileRevalidate call past its lookup has started a fetch,
\* hit or miss; when that fetch is answered with a 200 response the
\* cache.put of the response under the request is started, and a started
\* cache.put of the call's response leads to the entry of the runtime
\* partition for its request being that response; a staleWhileRevalidate
\* lookup that finds an entry returns it
C18_AlwaysFetches ==
  \A i \in CallsOf("staleWhileRevalidate") :
    calls[i].pc \notin {"open", "match"} => calls[i].fetched

C18_AnswerStartsPut ==
  \A i \in CallsOf("staleWhileRevalidate") :
    (calls[i].pc = "fetch" /\ calls'[i].networkResponse.status = 200) =>
      [key |-> calls[i].request.url, response |-> calls'[i].networkResponse]
        \in puts'

C18_Lookup ==
  \A i \in CallsOf("staleWhileRevalidate") :
    (calls[i].pc = "match" /\ calls'[i].pc # "match"
       /\ Match(caches, RUNTIME_CACHE, calls[i].request.url) # Undefined) =>
      /\ calls'[i].settled
      /\ calls'[i].result = Match(caches, RUNTIME_CACHE, calls[i].request.url)

C18_PutStarted(i, r) ==
  /\ i \in CallsOf("staleWhileRevalidate")
  /\ calls[i].networkResponse = r
  /\ [key |-> calls[i].request.url, response |-> r] \in puts

C18_Refreshed(i, r) ==
  /\ i \in 1..Len(calls)
  /\ Match(caches, RUNTIME_CACHE, calls[i].request.url) = r

C18_StaleRevalidates ==
  /\ []C18_AlwaysFetches
  /\ [][C18_AnswerStartsPut]_vars
  /\ [][C18_Lookup]_vars
  /\ \A i \in 1..MaxFetchEvents :
       \A r \in {x \in Responses : x.status = 200} :
         C18_PutStarted(i, r) ~> C18_Refreshed(i, r)

C18_Witness ==
  \E i \in CallsOf("staleWhileRevalidate") :
    /\ calls[i].cachedResponse # Undefined
    /\ calls[i].networkResponse.status = 200
    /\ calls[i].networkResponse # calls[i].cachedResponse
    /\ calls[i].result = calls[i].cachedResponse
    /\ Match(caches, RUNTIME_CACHE, calls[i].request.url) = calls[i].networkResponse

\* C19: self.clients.claim() has been called only with no caches.delete of
\* the activate handler pending and none failed: the step that calls it
\* starts from such a state, and an activate handler one of whose deletions
\* failed never calls it
C19_Claimed ==
  /\ activate.pc = "claimed" => activate.pending = {} /\ activate.failed = {}
  /\ activate.failed # {} => activate.pc \in {"deleting", "rejected"}

C19_ClaimStep ==
  (activate.pc # "claimed" /\ activate'.pc = "claimed") =>
    /\ activate.pending = {} /\ activate.failed = {}
    /\ \A i \in 1..Len(activate.cacheNames) :
         IsStale(activate.cacheNames[i]) => ~Has(caches, activate.cacheNames[i])

C19_ClaimAfterDeletions == []C19_Claimed /\ [][C19_ClaimStep]_vars

C19_Witness ==
  /\ activate.failed # {}
  /\ activate.pc = "rejected"
  /\ worker = "activated"
  /\ \E name \in activate.failed : Has(caches, name)

\* the partition the install handler filled is as it left it
C20_PrecacheUntouched ==
  install.pc = "done" => Entries(caches, CACHE_NAME) = install.got

\* C20 as stated: the lookups of every strategy call have searched the
\* runtime partition only, and after install the precache partition is as
\* install left it
C20_RuntimeOnly ==
  /\ \A i \in 1..Len(calls) : calls[i].reads \subseteq {RUNTIME_CACHE}
  /\ C20_PrecacheUntouched

\* C20: the lookups of a strategy call have searched the runtime partition
\* only, except the caches.match('/offline.html') of a cacheFirst call
\* whose fetch failed, which searches every partition; and after install,
\* whatever fetch, message, sync, push and notificationclick events were
\* handled, the precache partition is as install left it
C20_Isolation ==
  /\ \A i \in 1..Len(calls) :
       \/ calls[i].reads \subseteq {RUNTIME_CACHE}
       \/ /\ calls[i].strategy = "cacheFirst"
          /\ calls[i].networkResponse = NetworkError
          /\ calls[i].pc = "done"
  /\ C20_PrecacheUntouched

C20_Witness ==
  /\ \E i \in CallsOf("cacheFirst") :
       calls[i].pc = "done" /\ CACHE_NAME \in calls[i].reads
  /\ \E i \in 1..Len(messages) :
       messages[i].pc = "done" /\ messages[i].got # {}
  /\ synced > 0 /\ windows > 0
  /\ Entries(caches, RUNTIME_CACHE) # {}
  /\ Entries(caches, CACHE_NAME) = Precached

====
